---- MODULE Spec2Model ----
(***************************************************************************)
(* Model of html-rip.py: the asset resolution and rewriting pipeline of    *)
(* main() and download_image().                                            *)
(*                                                                         *)
(* A python string is modelled as a sequence of tokens (TLA+ strings);    *)
(* concatenating the tokens gives the string.  The text the code looks     *)
(* into character by character (path segments, file names) is written one  *)
(* character per token; a piece the code only recognises as a whole is one *)
(* token ("https:", "//", "data:", "url(", "@import").                     *)
(***************************************************************************)
EXTENDS Integers, Sequences, FiniteSets, TLC

None == <<"<None>">>

\* ------------------------------------------------------------------------
\* Generic string helpers (python str methods at token granularity)
\* ------------------------------------------------------------------------
Spaces == {" ", "\n"}

IsSpace(t) == t \in Spaces

Min(S) == CHOOSE x \in S : \A y \in S : x <= y
Max(S) == CHOOSE x \in S : \A y \in S : x >= y

\* the least element of hits, none if there is no hit
FirstOf(hits, none) == IF hits = {} THEN none ELSE Min(hits)

\* the greatest element of hits, 0 if there is no hit
LastOf(hits) == IF hits = {} THEN 0 ELSE Max(hits)

\* the least position >= i of s holding a token in T, Len(s) + 1 if there is none
FirstIn(s, i, T) == FirstOf({k \in i..Len(s) : s[k] \in T}, Len(s) + 1)

\* the least position >= i of s holding a token not in T, Len(s) + 1 if none
FirstNotIn(s, i, T) == FirstOf({k \in i..Len(s) : s[k] \notin T}, Len(s) + 1)

\* the greatest position of s holding a token in T (not in T), 0 if there is none
LastIn(s, T) == LastOf({k \in 1..Len(s) : s[k] \in T})

LastNotIn(s, T) == LastOf({k \in 1..Len(s) : s[k] \notin T})

LStrip(s) == SubSeq(s, FirstNotIn(s, 1, Spaces), Len(s))

RStrip(s) == SubSeq(s, 1, LastNotIn(s, Spaces))

\* str.strip()
Strip(s) == RStrip(LStrip(s))

\* "".join(s)
RECURSIVE Str(_)
Str(s) ==
    IF s = <<>> THEN ""
    ELSE IF Len(s) = 1 THEN s[1]
    ELSE LET h == Len(s) \div 2 IN Str(SubSeq(s, 1, h)) \o Str(SubSeq(s, h + 1, Len(s)))

\* index of the first occurrence of token t in s at or after position i, 0 if none
IndexFrom(s, t, i) == FirstOf({k \in i..Len(s) : s[k] = t}, 0)

\* str.split(sep): the pieces between the occurrences of the token sep
RECURSIVE Split(_, _)
SplitAt(s, sep, k) ==
    IF k = 0 THEN <<s>>
    ELSE <<SubSeq(s, 1, k - 1)>> \o Split(SubSeq(s, k + 1, Len(s)), sep)

Split(s, sep) == SplitAt(s, sep, IndexFrom(s, sep, 1))

\* sep.join(parts)
RECURSIVE Join(_, _)
Join(parts, sep) ==
    IF parts = <<>> THEN <<>>
    ELSE IF Len(parts) = 1 THEN parts[1]
    ELSE parts[1] \o sep \o Join(Tail(parts), sep)

\* s[i:].startswith(p)
StartsWithAt(s, p, i) ==
    /\ i + Len(p) - 1 <= Len(s)
    /\ SubSeq(s, i, i + Len(p) - 1) = p

\* s.find(old, i): the first occurrence of old at or after i, 0 if none
Find(s, old, i) == FirstOf({k \in i..Len(s) : StartsWithAt(s, old, k)}, 0)

\* str.replace(old, new): every non-overlapping occurrence, left to right
RECURSIVE ReplaceFrom(_, _, _, _)
ReplaceAt(s, old, new, i, k) ==
    IF k = 0 THEN SubSeq(s, i, Len(s))
    ELSE SubSeq(s, i, k - 1) \o new \o ReplaceFrom(s, old, new, k + Len(old))

ReplaceFrom(s, old, new, i) ==
    ReplaceAt(s, old, new, i, IF old = <<>> THEN 0 ELSE Find(s, old, i))

Replace(s, old, new) == ReplaceFrom(s, old, new, 1)

\* old in s
Contains(s, old) == Find(s, old, 1) # 0

\* ------------------------------------------------------------------------
\* urllib.parse at token granularity
\* ------------------------------------------------------------------------
SKIP_SCHEMES == {"data", "mailto", "tel", "javascript"}

\* the scheme tokens of the model and the (lower-cased) scheme urlparse reports
SchemeTokens == {"http:", "https:", "ftp:", "data:", "mailto:", "tel:",
                 "javascript:", "JavaScript:"}

SchemeName(t) ==
    CASE t = "http:" -> "http"
      [] t = "https:" -> "https"
      [] t = "ftp:" -> "ftp"
      [] t = "data:" -> "data"
      [] t = "mailto:" -> "mailto"
      [] t = "tel:" -> "tel"
      [] t = "javascript:" -> "javascript"
      [] t = "JavaScript:" -> "javascript"

\* urlparse(u): scheme, netloc, path and fragment of a token sequence; the
\* scheme is split off first, then the netloc, then the fragment
SplitFragment(schemeTok, netloc, r2, h) ==
    [scheme |-> IF schemeTok = <<>> THEN "" ELSE SchemeName(schemeTok[1]),
     schemeTok |-> schemeTok,
     netloc |-> netloc,
     path |-> IF h = 0 THEN r2 ELSE SubSeq(r2, 1, h - 1),
     fragment |-> IF h = 0 THEN <<>> ELSE SubSeq(r2, h + 1, Len(r2))]

SplitNetloc(schemeTok, r1) ==
    IF Len(r1) >= 2 /\ r1[1] = "//" /\ r1[2] \notin {"/", "#"}
    THEN SplitFragment(schemeTok, r1[2], SubSeq(r1, 3, Len(r1)),
                       IndexFrom(SubSeq(r1, 3, Len(r1)), "#", 1))
    ELSE SplitFragment(schemeTok, "", r1, IndexFrom(r1, "#", 1))

urlparse(u) ==
    IF u # <<>> /\ Head(u) \in SchemeTokens
    THEN SplitNetloc(<<Head(u)>>, Tail(u))
    ELSE SplitNetloc(<<>>, u)

\* urlunparse without the fragment
Unparse(schemeTok, netloc, path) ==
    schemeTok \o (IF netloc = "" THEN <<>> ELSE <<"//", netloc>>) \o path

\* the dot-segment removal loop of urljoin
RECURSIVE ResolveDots(_, _)
ResolveDots(segs, acc) ==
    IF segs = <<>> THEN acc
    ELSE IF Head(segs) = <<".", ".">>
    THEN ResolveDots(Tail(segs),
                     IF acc = <<>> THEN acc ELSE SubSeq(acc, 1, Len(acc) - 1))
    ELSE IF Head(segs) = <<".">> THEN ResolveDots(Tail(segs), acc)
    ELSE ResolveDots(Tail(segs), Append(acc, Head(segs)))

\* the segments of the base path without its last one, unless that is empty
BaseParts(bsegs) ==
    IF bsegs[Len(bsegs)] # <<>> THEN SubSeq(bsegs, 1, Len(bsegs) - 1) ELSE bsegs

\* the empty first segment stands for the leading slash and is kept; a last
\* segment "." or ".." leaves a trailing slash
RemoveDots(segments) ==
    LET lead == segments # <<>> /\ segments[1] = <<>>
        lastDot == segments # <<>> /\ segments[Len(segments)] \in {<<".">>, <<".", ".">>}
    IN Join((IF lead THEN <<<<>>>> ELSE <<>>)
            \o ResolveDots(IF lead THEN Tail(segments) ELSE segments, <<>>)
            \o (IF lastDot THEN <<<<>>>> ELSE <<>>), <<"/">>)

\* the path part of urljoin(base, ref) for a reference without scheme and netloc
MergePath(bpath, path) ==
    RemoveDots(IF path # <<>> /\ path[1] = "/"
               THEN Split(path, "/")
               ELSE BaseParts(Split(bpath, "/")) \o Split(path, "/"))

\* urljoin on the parsed base b and the parsed reference r
JoinParsed(b, r, url) ==
    IF url = <<>> THEN Unparse(b.schemeTok, b.netloc, b.path)
    ELSE IF r.scheme # "" /\ r.scheme # b.scheme
         THEN Unparse(r.schemeTok, r.netloc, r.path)
    ELSE IF r.netloc # ""
         THEN Unparse(b.schemeTok, r.netloc, r.path)
    ELSE IF r.path = <<>>
         THEN Unparse(b.schemeTok, b.netloc, b.path)
    ELSE Unparse(b.schemeTok, b.netloc, MergePath(b.path, r.path))

\* urldefrag(urljoin(base, url))[0]
urljoin_defrag(base, url) == JoinParsed(urlparse(base), urlparse(url), url)

is_http_url(u) == urlparse(u).scheme \in {"http", "https"}

\* the end of join_and_clean: only http(s) results are kept
HttpOrNone(absolute) == IF ~is_http_url(absolute) THEN None ELSE absolute

\* join_and_clean on the stripped reference r, parsed
JoinStripped(base_url, r, parsed) ==
    IF parsed.scheme # "" /\ parsed.scheme \in SKIP_SCHEMES THEN None
    ELSE HttpOrNone(urljoin_defrag(base_url, r))

\* join_and_clean(base_url, ref): the resolved URL or None
join_and_clean(base_url, ref) ==
    IF ref = <<>> THEN None
    ELSE JoinStripped(base_url, Strip(ref), urlparse(Strip(ref)))

\* ------------------------------------------------------------------------
\* File names (character level)
\* ------------------------------------------------------------------------
SafeChars ==
    {"a", "b", "c", "d", "e", "f", "g", "h", "i", "j", "k", "l", "m", "n", "o",
     "p", "q", "r", "s", "t", "u", "v", "w", "x", "y", "z",
     "A", "B", "C", "D", "E", "F", "G", "H", "I", "J", "K", "L", "M", "N", "O",
     "P", "Q", "R", "S", "T", "U", "V", "W", "X", "Y", "Z",
     "0", "1", "2", "3", "4", "5", "6", "7", "8", "9", ".", "_", "-"}

\* unquote(): the percent escapes of the model
unquote(cs) == Replace(Replace(cs, <<"%", "2", "0">>, <<" ">>), <<"%", "2", "F">>, <<"/">>)

\* a substitution that keeps every character (variant of SubUnsafe for C13)
KeepUnsafe(cs) == cs

\* re.sub(r"[^A-Za-z0-9._-]+", "_", cs): a run of other characters becomes
\* one underscore (put where the run starts)
SubUnsafe(cs) ==
    LET Drop == "<drop>"
        marked == [k \in 1..Len(cs) |->
                     IF cs[k] \in SafeChars THEN cs[k]
                     ELSE IF k > 1 /\ cs[k - 1] \notin SafeChars THEN Drop
                     ELSE "_"]
    IN SelectSeq(marked, LAMBDA c : c # Drop)

\* str.strip("._")
StripDotUnderscore(cs) ==
    SubSeq(cs, FirstNotIn(cs, 1, {".", "_"}), LastNotIn(cs, {".", "_"}))

\* name or "file"
OrFile(name) == IF name = <<>> THEN <<"f", "i", "l", "e">> ELSE name

safe_filename(name) == OrFile(StripDotUnderscore(SubUnsafe(Strip(unquote(name)))))

\* os.path.basename(urlparse(url).path)
LastSegment(segs) == segs[Len(segs)]

Basename(url) == LastSegment(Split(urlparse(url).path, "/"))

\* the characters of the kind names local_path_for passes as default
KindChars(kind) ==
    CASE kind = "css" -> <<"c", "s", "s">>
      [] kind = "js" -> <<"j", "s">>
      [] kind = "img" -> <<"i", "m", "g">>
      [] OTHER -> <<"o", "t", "h", "e", "r">>

SafeOrDefault(base, default) == IF base = <<>> THEN default ELSE safe_filename(base)

filename_from_url(url, default) == SafeOrDefault(Basename(url), default)

\* os.path.splitext(cs): leading dots do not start an extension
SplitAtDot(cs, d) ==
    IF d = 0 \/ \A k \in 1..(d - 1) : cs[k] = "." THEN <<cs, <<>>>>
    ELSE <<SubSeq(cs, 1, d - 1), SubSeq(cs, d, Len(cs))>>

splitext(cs) == SplitAtDot(cs, LastIn(cs, {"."}))

\* a digest that does not depend on its input (variant of short_hash for C8)
ConstantHash(s) == <<"d", "a", "3", "9", "a", "3", "e", "e", "5", "e">>

\* hashlib.sha1(s).hexdigest()[:10] of the URLs of the model
short_hash(s) ==
    CASE s = "https://cdn/r" ->
          <<"d", "0", "1", "0", "3", "3", "a", "b", "a", "8">>
      [] s = "https://h/%20.png" ->
          <<"0", "2", "a", "0", "a", "7", "b", "5", "7", "4">>
      [] s = "https://h/.htaccess" ->
          <<"3", "7", "d", "6", "9", "a", "f", "c", "0", "a">>
      [] s = "https://h/a%20b%2Fc.tar.gz" ->
          <<"3", "7", "d", "f", "8", "0", "5", "4", "f", "9">>
      [] s = "https://h/a..b" ->
          <<"4", "7", "9", "1", "3", "4", "0", "9", "7", "4">>
      [] s = "https://h/a.png" ->
          <<"b", "7", "a", "6", "f", "f", "1", "2", "c", "5">>
      [] s = "https://h/b.png" ->
          <<"9", "b", "0", "b", "6", "7", "e", "4", "6", "8">>
      [] s = "https://h/css/inline_styles.css" ->
          <<"b", "8", "b", "a", "d", "b", "2", "b", "9", "6">>
      [] s = "https://h/d/" ->
          <<"7", "5", "a", "a", "a", "3", "8", "9", "e", "6">>
      [] s = "https://h/d/a.png" ->
          <<"a", "a", "b", "3", "0", "8", "6", "b", "a", "4">>
      [] s = "https://h/d/b.png" ->
          <<"f", "7", "1", "7", "a", "3", "3", "6", "9", "a">>
      [] s = "https://h/d/s.css" ->
          <<"0", "f", "7", "d", "3", "f", "4", "e", "d", "b">>
      [] s = "https://h/d/t.css" ->
          <<"a", "5", "4", "a", "3", "b", "b", "7", "1", "5">>
      [] s = "https://h/~" ->
          <<"d", "f", "2", "a", "d", "7", "b", "2", "5", "a">>

choose_ext_from_ctype(ctype) ==
    CASE ctype = "text/css" -> <<".", "c", "s", "s">>
      [] ctype = "text/javascript" -> <<".", "j", "s">>
      [] ctype = "application/javascript" -> <<".", "j", "s">>
      [] ctype = "application/x-javascript" -> <<".", "j", "s">>
      [] ctype = "image/png" -> <<".", "p", "n", "g">>
      [] ctype = "image/jpeg" -> <<".", "j", "p", "g">>
      [] ctype = "image/gif" -> <<".", "g", "i", "f">>
      [] ctype = "image/webp" -> <<".", "w", "e", "b", "p">>
      [] ctype = "image/svg+xml" -> <<".", "s", "v", "g">>
      [] ctype = "image/x-icon" -> <<".", "i", "c", "o">>
      [] ctype = "image/vnd.microsoft.icon" -> <<".", "i", "c", "o">>
      [] ctype = "image/avif" -> <<".", "a", "v", "i", "f">>
      [] OTHER -> <<>>

\* the bucket directories of the AssetStore, below the destination root
css_dir == <<"c", "s", "s">>
js_dir == <<"j", "s">>
img_dir == <<"i", "m", "g">>

\* the directory of a kind
KindDir(kind) ==
    IF kind = "css" THEN css_dir
    ELSE IF kind = "js" THEN js_dir
    ELSE IF kind = "img" THEN img_dir
    ELSE <<"a", "s", "s", "e", "t", "s">>

\* the file name built from the parts <<stem, ext>> of the base name and the hash h
HashedName(parts, h, content_type) ==
    safe_filename(parts[1]) \o <<"_">> \o h
    \o (IF parts[2] = <<>> THEN choose_ext_from_ctype(content_type) ELSE parts[2])

\* AssetStore.local_path_for: the path segments below the destination root
local_path_for(kind, final_url, content_type) ==
    <<KindDir(kind),
      HashedName(splitext(filename_from_url(final_url, KindChars(kind))),
                 short_hash(Str(final_url)), content_type)>>

\* os.path.dirname of a path given by its segments
Dirname(path) == SubSeq(path, 1, Len(path) - 1)

\* length of the common prefix of two segment lists
RECURSIVE CommonLen(_, _)
CommonLen(a, b) ==
    IF a # <<>> /\ b # <<>> /\ Head(a) = Head(b)
    THEN 1 + CommonLen(Tail(a), Tail(b)) ELSE 0

\* relpath_web(from_dir, to_path): os.path.relpath joined with "/"
\* the relative path that goes up from from_dir to the common prefix (of
\* length c) and down to to_path
RelFrom(from_dir, to_path, c) ==
    IF c = Len(from_dir) /\ c = Len(to_path) THEN <<".">>
    ELSE Join([k \in 1..(Len(from_dir) - c) |-> <<".", ".">>]
              \o SubSeq(to_path, c + 1, Len(to_path)), <<"/">>)

\* the path from the destination root, whatever the directory of the document
\* (variant of relpath_web for C9)
RelFromRoot(from_dir, to_path) == Join(to_path, <<"/">>)

relpath_web(from_dir, to_path) == RelFrom(from_dir, to_path, CommonLen(from_dir, to_path))

\* ------------------------------------------------------------------------
\* Reference extraction
\* ------------------------------------------------------------------------
Quotes == {"'", "\""}

\* first position >= i that is not whitespace (\s*)
SkipSpace(s, i) == FirstNotIn(s, i, Spaces)

\* whether close \s* ")" follows at position e (close is the quote, or nothing)
ClosesAt(s, close, e) ==
    /\ close = "" \/ (e <= Len(s) /\ s[e] = close)
    /\ SkipSpace(s, IF close = "" THEN e ELSE e + 1) <= Len(s)
    /\ s[SkipSpace(s, IF close = "" THEN e ELSE e + 1)] = ")"

\* the end of the line that holds position p: "." does not match a newline
LineEnd(s, p) == FirstIn(s, p, {"\n"})

\* the lazy group (.*?) of the url() pattern from position p: the least e >= p
\* at which the pattern closes; the result is the position of ")", or 0
CloseParen(s, close, e) ==
    IF e = 0 THEN 0 ELSE SkipSpace(s, IF close = "" THEN e ELSE e + 1)

UrlClose(s, close, p) ==
    CloseParen(s, close, FirstOf({e \in p..LineEnd(s, p) : ClosesAt(s, close, e)}, 0))

\* the match that opens at p (after "url(" and spaces): with the quote q, ending
\* at eq, or else without a quote, ending at en
UrlGroup(s, p, q, eq, en) ==
    IF eq # 0
    THEN <<SubSeq(s, p + 1, LastIn(SubSeq(s, 1, eq - 1), {q}) - 1), eq>>
    ELSE IF en # 0 THEN <<RStrip(SubSeq(s, p, en - 1)), en>>
    ELSE <<>>

UrlOpen(s, p) ==
    IF p <= Len(s) /\ s[p] \in Quotes
    THEN UrlGroup(s, p, s[p], UrlClose(s, s[p], p + 1), UrlClose(s, "", p))
    ELSE UrlGroup(s, p, "", 0, UrlClose(s, "", p))

\* one match of url\(\s*(['\"]?)(.*?)\1\s*\) starting at i: <<group 2, end>> or <<>>
UrlMatchAt(s, i) == IF s[i] # "url(" THEN <<>> ELSE UrlOpen(s, SkipSpace(s, i + 1))

\* the stripped group of a match, if it is not empty
Group(m) == IF Strip(m[1]) # <<>> THEN <<Strip(m[1])>> ELSE <<>>

\* re.finditer over the url() pattern: the groups of the non-overlapping
\* matches from position i on
RECURSIVE UrlRefs(_, _)
UrlRefsAfter(s, m) == Group(m) \o UrlRefs(s, m[2] + 1)

UrlRefsAt(s, k) == IF k = 0 THEN <<>> ELSE UrlRefsAfter(s, UrlMatchAt(s, k))

UrlRefs(s, i) == UrlRefsAt(s, FirstOf({k \in i..Len(s) : UrlMatchAt(s, k) # <<>>}, 0))

\* first quote at or after i on the same line, 0 if none
QuoteAt(s, k) == IF k > Len(s) \/ s[k] = "\n" THEN 0 ELSE k

NextQuote(s, i) == QuoteAt(s, FirstIn(s, i, Quotes \cup {"\n"}))

\* the match whose opening quote is at p2 and whose closing quote is at e
ImportGroup(s, p2, e) ==
    IF e = 0 THEN <<>>
    ELSE <<SubSeq(s, p2 + 1, e - 1),
           IF e + 1 <= Len(s) /\ s[e + 1] = ")" THEN e + 1 ELSE e>>

ImportQuoted(s, p2) ==
    ImportGroup(s, p2, IF p2 <= Len(s) /\ s[p2] \in Quotes
                       THEN NextQuote(s, p2 + 1) ELSE 0)

ImportOpen(s, p) == ImportQuoted(s, IF p <= Len(s) /\ s[p] = "url(" THEN p + 1 ELSE p)

\* one match of @import\s+(?:url\()?['\"](.*?)['\"]\)? starting at i
ImportMatchAt(s, i) ==
    IF s[i] # "@import" \/ i + 1 > Len(s) \/ ~IsSpace(s[i + 1]) THEN <<>>
    ELSE ImportOpen(s, SkipSpace(s, i + 1))

\* re.finditer over the @import pattern
RECURSIVE ImportRefs(_, _)
ImportRefsAfter(s, m) == Group(m) \o ImportRefs(s, m[2] + 1)

ImportRefsAt(s, k) == IF k = 0 THEN <<>> ELSE ImportRefsAfter(s, ImportMatchAt(s, k))

ImportRefs(s, i) ==
    ImportRefsAt(s, FirstOf({k \in i..Len(s) : ImportMatchAt(s, k) # <<>>}, 0))

extract_urls_from_css(css_text) == UrlRefs(css_text, 1) \o ImportRefs(css_text, 1)

\* parse_srcset(srcset): the first whitespace-separated word of every
\* non-empty comma-separated part
FirstWord(part) == SubSeq(part, 1, FirstIn(part, 1, Spaces) - 1)

\* the candidate of one stripped part, if the part is not empty
Candidate(part) == IF part = <<>> THEN <<>> ELSE <<FirstWord(part)>>

RECURSIVE SrcsetParts(_)
SrcsetParts(parts) ==
    IF parts = <<>> THEN <<>>
    ELSE Candidate(Strip(Head(parts))) \o SrcsetParts(Tail(parts))

parse_srcset(srcset) == SrcsetParts(Split(srcset, ","))

\* ------------------------------------------------------------------------
\* Bounds and inputs
\* ------------------------------------------------------------------------
\* number of asset-carrying tags of the page
MaxTags == 1

\* number of requests of a run the remote site answers other than plainly
MaxFaults == 2

\* the page URL after the fetch of the root document (final_url of main)
page_final_url == <<"https:", "//", "h", "/", "p", ".", "h", "t", "m", "l">>

\* where the remote site may redirect a request to
RedirectURL == <<"https:", "//", "c", "d", "n", "/", "r">>

Tag(tag, rel, ref, srcset, meta) ==
    [tag |-> tag, rel |-> rel, ref |-> ref, srcset |-> srcset, meta |-> meta,
     injected |-> FALSE]

\* the tags a page is made of
TagUniverse == <<
    Tag("link", {"stylesheet"}, <<"d", "/", "s", ".", "c", "s", "s">>, <<>>, ""),
    Tag("link", {"stylesheet", "icon"}, <<"a", ".", "p", "n", "g", "#", "f">>, <<>>, ""),
    Tag("link", {"icon"}, <<"a", ".", "p", "n", "g">>, <<>>, ""),
    Tag("script", {}, <<"a", ".", "p", "n", "g">>, <<>>, ""),
    Tag("img", {}, <<"data:", "a", ".", "p", "n", "g">>, <<>>, ""),
    Tag("img", {}, <<"a", ".", "p", "n", "g", "#", "f">>, <<"a", ".", "p", "n", "g", " ", "2", "x", ",", " ", "b", ".", "p", "n", "g", " ", "3", "x">>, ""),
    Tag("source", {}, <<>>,
        <<"JavaScript:", "a", ".", "p", "n", "g", ",", ",", " ", "ftp:", "//", "h", "/", "a", ".", "p", "n", "g", ",", " ", "a", ".", "p", "n", "g", "#", "f">>, ""),
    Tag("meta", {}, <<" ", "d", "/", "a", ".", "p", "n", "g">>, <<>>, "og:image")
  >>

\* the bodies of the <style> blocks of a page: none, or a blank and a real one
StyleBodies == {<<>>, <<<<" ">>, <<"b{", "url(", "a", ".", "p", "n", "g", ")", "}">>>>}

\* pages: at most MaxTags tags, in the order of TagUniverse
Pages ==
    UNION { { [tags |-> [k \in 1..n |-> TagUniverse[f[k]]], styles |-> st] :
                f \in { g \in [1..n -> 1..Len(TagUniverse)] :
                          \A k \in 1..(n - 1) : g[k] <= g[k + 1] },
                st \in StyleBodies } : n \in 0..MaxTags }

\* the text the remote site serves for a stylesheet URL
CssS == <<"b{", "url(", "a", ".", "p", "n", "g", ")", ";", "url(", "'", "data:", "a", ".", "p", "n", "g", "'", ")",
          "}", "\n", "@import", " ", "\"", "t", ".", "c", "s", "s", "\"", ";">>
CssT == <<"@import", " ", "url(", "'", "s", ".", "c", "s", "s", "'", ")", ";", "\n",
          "i{", "url(", " ", ".", ".", "/", "a", ".", "p", "n", "g", " ", ")", "}">>
CssI == <<"h{", "url(", "\"", ".", ".", "/", "a", ".", "p", "n", "g", "\"", ")", "}">>
CssPlain == <<"p{}">>

TextNamed(n) ==
    IF n = <<"s", ".", "c", "s", "s">> THEN CssS
    ELSE IF n = <<"t", ".", "c", "s", "s">> THEN CssT
    ELSE IF n = <<"i", "n", "l", "i", "n", "e", "_", "s", "t", "y", "l", "e", "s", ".", "c", "s", "s">> THEN CssI
    ELSE CssPlain

SiteText(url) == TextNamed(Basename(url))

\* the resources of the remote site; a request for anything else fails (404)
SiteURLs ==
    { <<"https:", "//", "h", "/">> \o p :
        p \in { <<"a", ".", "p", "n", "g">>, <<"b", ".", "p", "n", "g">>, <<"d", "/", "a", ".", "p", "n", "g">>,
                <<"d", "/", "s", ".", "c", "s", "s">>, <<"d", "/", "t", ".", "c", "s", "s">>, <<"c", "s", "s", "/", "i", "n", "l", "i", "n", "e", "_", "s", "t", "y", "l", "e", "s", ".", "c", "s", "s">> } }

\* ------------------------------------------------------------------------
\* State
\* ------------------------------------------------------------------------
VARIABLES
    pc,              \* position of main: the pass it is in
    root_ok,         \* outcome of the fetch of the root document
    html,            \* the root document as served
    soup,            \* the parsed document, mutated in place
    store,           \* store.map_url_to_local, in insertion order: [k, v]
    downloaded_css,  \* the CSS work list: <<final url, local path>>
    downloaded_js,
    downloaded_img,
    disk,            \* the files below the destination root: path -> content
    it,              \* index in the find_all list of the pass
    sub,             \* position inside an <img>/<source>: the srcset loop
    css,             \* the locals of the CSS pass
    fetched,         \* log of the calls of the Fetcher
    rewrites         \* log of the substitutions made in a document

vars == <<pc, root_ok, html, soup, store, downloaded_css, downloaded_js, downloaded_img,
          disk, it, sub, css, fetched, rewrites>>

NoSub == [active |-> FALSE, urls |-> <<>>, j |-> 0, new_parts |-> <<>>]
NoCss == [active |-> FALSE, css_local |-> <<>>, css_text |-> <<>>,
          css_base_url |-> None, refs |-> <<>>, ri |-> 0, updated |-> <<>>]

Init ==
    /\ pc = "start"
    /\ root_ok = "pending"
    /\ html \in Pages
    /\ soup = <<>>
    /\ store = <<>>
    /\ downloaded_css = <<>>
    /\ downloaded_js = <<>>
    /\ downloaded_img = <<>>
    /\ disk = <<>>
    /\ it = 0
    /\ sub = NoSub
    /\ css = NoCss
    /\ fetched = <<>>
    /\ rewrites = <<>>

\* ------------------------------------------------------------------------
\* The asset store and the file system
\* ------------------------------------------------------------------------
\* url in store.map_url_to_local
InMap(m, url) == \E e \in 1..Len(m) : m[e].k = url

\* store.map_url_to_local[url]
MapGet(m, url) == m[CHOOSE e \in 1..Len(m) : m[e].k = url].v

\* store.map_url_to_local[url] = local
MapSet(m, url, local) ==
    IF InMap(m, url)
    THEN [e \in 1..Len(m) |-> IF m[e].k = url THEN [k |-> url, v |-> local] ELSE m[e]]
    ELSE Append(m, [k |-> url, v |-> local])

\* write_text / write_bytes: disk is a sequence of [path, data], one per path
OnDisk(d, path) == \E e \in 1..Len(d) : d[e].path = path

ReadFile(d, path) == d[CHOOSE e \in 1..Len(d) : d[e].path = path].data

WriteFile(d, path, data) ==
    IF OnDisk(d, path)
    THEN [e \in 1..Len(d) |-> IF d[e].path = path THEN [path |-> path, data |-> data] ELSE d[e]]
    ELSE Append(d, [path |-> path, data |-> data])

Bytes == <<"<bytes>">>

\* soup.find_all(name): the positions of the tags of that name
FindAll(name) == SelectSeq([k \in 1..Len(soup) |-> k], LAMBDA k : soup[k].tag = name)

\* one entry of the Fetcher log
Fetch(how, url, ref, ctx, doc, o, stored, local) ==
    [how |-> how, url |-> url, ref |-> ref, ctx |-> ctx, doc |-> doc.path, at |-> doc.at,
     ok |-> o.ok, final |-> o.final, ctype |-> o.ctype,
     stored |-> stored, local |-> local]

\* one entry of the substitution log
Rewrite(doc, ctx, ref, url, value) ==
    [doc |-> doc.path, at |-> doc.at, ctx |-> ctx, ref |-> ref, url |-> url,
     value |-> value]

\* ctype.startswith("image/"), over the content types of the model
IsImageType(ctype) ==
    ctype \in {"image/png", "image/jpeg", "image/gif", "image/webp", "image/svg+xml",
               "image/x-icon", "image/vnd.microsoft.icon", "image/avif"}

\* a response other than the plain one: an exception, a redirect, a content
\* type that is not an image, or data that cannot be written
Faulty(f) == f.url \in SiteURLs /\ ~(f.ok /\ f.final = f.url /\ f.stored)

Faults == Cardinality({ n \in 1..Len(fetched) : Faulty(fetched[n]) })

\* what a call of fetch_text / fetch_bytes can come to: an exception (ok = FALSE)
\* or a response; wr tells whether the write of the fetched data succeeds
NoResponse == [ok |-> FALSE, final |-> None, ctype |-> "", wr |-> FALSE]

TextResponses(url) ==
    IF url \notin SiteURLs THEN {NoResponse}
    ELSE { [ok |-> TRUE, final |-> url, ctype |-> "text/css", wr |-> TRUE] }
         \cup (IF Faults >= MaxFaults THEN {}
               ELSE { NoResponse,
                      [ok |-> TRUE, final |-> url, ctype |-> "text/css", wr |-> FALSE],
                      [ok |-> TRUE, final |-> RedirectURL, ctype |-> "text/css",
                       wr |-> TRUE] })

ImageResponses(url) ==
    IF url \notin SiteURLs THEN {NoResponse}
    ELSE { [ok |-> TRUE, final |-> url, ctype |-> "image/png", wr |-> TRUE] }
         \cup (IF Faults >= MaxFaults THEN {}
               ELSE { NoResponse,
                      [ok |-> TRUE, final |-> url, ctype |-> "image/png", wr |-> FALSE],
                      [ok |-> TRUE, final |-> url, ctype |-> "text/html", wr |-> TRUE],
                      [ok |-> TRUE, final |-> RedirectURL, ctype |-> "image/png",
                       wr |-> TRUE] })

ScriptResponses(url) ==
    IF url \notin SiteURLs THEN {NoResponse}
    ELSE { [ok |-> TRUE, final |-> url, ctype |-> "", wr |-> TRUE] }
         \cup (IF Faults >= MaxFaults THEN {}
               ELSE { NoResponse,
                      [ok |-> TRUE, final |-> url, ctype |-> "", wr |-> FALSE],
                      [ok |-> TRUE, final |-> RedirectURL,
                       ctype |-> "application/javascript", wr |-> TRUE] })

\* the state download_image works on and changes
Env == [store |-> store, disk |-> disk, downloaded_img |-> downloaded_img,
        fetched |-> fetched]

\* download_image without the lookup in the map: every call goes to the Fetcher
\* and stores what it gets (variant of download_image for C2)
RefetchingDownload(e, url, rel_base_dir, o, ref, ctx, doc) ==
    IF ~o.ok \/ ~IsImageType(o.ctype) \/ ~o.wr
    THEN [ret |-> None,
          env |-> [e EXCEPT !.fetched =
                     Append(@, Fetch("bytes", url, ref, ctx, doc, o, FALSE, <<>>))]]
    ELSE [ret |-> relpath_web(rel_base_dir, local_path_for("img", o.final, o.ctype)),
          env |-> [store |-> MapSet(e.store, url,
                                    local_path_for("img", o.final, o.ctype)),
                   disk |-> WriteFile(e.disk, local_path_for("img", o.final, o.ctype),
                                      Bytes),
                   downloaded_img |-> Append(e.downloaded_img,
                        <<o.final, local_path_for("img", o.final, o.ctype)>>),
                   fetched |-> Append(e.fetched,
                        Fetch("bytes", url, ref, ctx, doc, o, TRUE,
                              local_path_for("img", o.final, o.ctype)))]]

\* download_image(url, session, store, rel_base_dir, downloaded_list) on the
\* response o: the returned path (or None) and the state it leaves
StoreImage(e, url, rel_base_dir, o, ref, ctx, doc, local) ==
    [ret |-> relpath_web(rel_base_dir, local),
     env |-> [store |-> MapSet(e.store, url, local),
              disk |-> WriteFile(e.disk, local, Bytes),
              downloaded_img |-> Append(e.downloaded_img, <<o.final, local>>),
              fetched |-> Append(e.fetched,
                                 Fetch("bytes", url, ref, ctx, doc, o, TRUE, local))]]

\* download_image with the map entry made before the write, and kept when the
\* write fails (variant of download_image for C17)
MapBeforeWrite(e, url, rel_base_dir, o, ref, ctx, doc) ==
    IF InMap(e.store, url)
    THEN [ret |-> relpath_web(rel_base_dir, MapGet(e.store, url)), env |-> e]
    ELSE IF ~o.ok \/ ~IsImageType(o.ctype)
    THEN [ret |-> None,
          env |-> [e EXCEPT !.fetched =
                     Append(@, Fetch("bytes", url, ref, ctx, doc, o, FALSE, <<>>))]]
    ELSE IF ~o.wr
    THEN [ret |-> None,
          env |-> [e EXCEPT !.store = MapSet(@, url, local_path_for("img", o.final, o.ctype)),
                            !.fetched =
                     Append(@, Fetch("bytes", url, ref, ctx, doc, o, FALSE, <<>>))]]
    ELSE StoreImage(e, url, rel_base_dir, o, ref, ctx, doc,
                    local_path_for("img", o.final, o.ctype))

download_image(e, url, rel_base_dir, o, ref, ctx, doc) ==
    IF InMap(e.store, url)
    THEN [ret |-> relpath_web(rel_base_dir, MapGet(e.store, url)), env |-> e]
    ELSE IF ~o.ok \/ ~IsImageType(o.ctype) \/ ~o.wr
    THEN [ret |-> None,
          env |-> [e EXCEPT !.fetched =
                     Append(@, Fetch("bytes", url, ref, ctx, doc, o, FALSE, <<>>))]]
    ELSE StoreImage(e, url, rel_base_dir, o, ref, ctx, doc,
                    local_path_for("img", o.final, o.ctype))

\* whether download_image calls the Fetcher
NeedsFetch(m, url) == url # None /\ ~InMap(m, url)

\* ------------------------------------------------------------------------
\* main: the root document and the inline styles
\* ------------------------------------------------------------------------
IndexDoc == <<<<"i", "n", "d", "e", "x", ".", "h", "t", "m", "l">>>>

\* the place of a reference: the document and, in index.html, the tag
InHtml(i) == [path |-> IndexDoc, at |-> i]
InCss(css_local) == [path |-> css_local, at |-> 0]
DestDir == <<>>

\* a root fetch whose failure is swallowed like that of an asset (variant of
\* FetchRoot for C4)
FetchRootLenient ==
    /\ pc = "start"
    /\ \E ok \in BOOLEAN :
         /\ root_ok' = IF ok THEN "yes" ELSE "no"
         /\ soup' = IF ok THEN html.tags ELSE <<>>
    /\ pc' = "inline"
    /\ UNCHANGED <<html, store, downloaded_css, downloaded_js, downloaded_img,
                   disk, it, sub, css, fetched, rewrites>>

\* fetch_text(start_url): a failure is fatal (SystemExit)
FetchRoot ==
    /\ pc = "start"
    /\ \E ok \in BOOLEAN :
         IF ok
         THEN /\ root_ok' = "yes"
              /\ pc' = "inline"
              /\ soup' = html.tags
         ELSE /\ root_ok' = "no"
              /\ pc' = "error"
              /\ soup' = soup
    /\ UNCHANGED <<html, store, downloaded_css, downloaded_js, downloaded_img,
                   disk, it, sub, css, fetched, rewrites>>

inline_css_rel == <<"c", "s", "s", "/", "i", "n", "l", "i", "n", "e", "_", "s", "t", "y", "l", "e", "s", ".", "c", "s", "s">>
StyleSeparator == <<"\n", "\n", "/* ---- inline style separator ---- */", "\n", "\n">>

\* the <style> pass: the non-blank bodies go to css/inline_styles.css and a
\* stylesheet link to it is appended to <head>
InlineStyles ==
    /\ pc = "inline"
    /\ LET inline_css_parts == SelectSeq(html.styles, LAMBDA t : Strip(t) # <<>>) IN
       IF inline_css_parts # <<>>
       THEN /\ disk' = WriteFile(disk, <<css_dir, <<"i", "n", "l", "i", "n", "e", "_", "s", "t", "y", "l", "e", "s", ".", "c", "s", "s">>>>,
                                 Join(inline_css_parts, StyleSeparator))
            /\ soup' = Append(soup, [tag |-> "link", rel |-> {"stylesheet"},
                                     ref |-> inline_css_rel, srcset |-> <<>>,
                                     meta |-> "", injected |-> TRUE])
       ELSE UNCHANGED <<disk, soup>>
    /\ pc' = "links"
    /\ it' = 1
    /\ UNCHANGED <<root_ok, html, store, downloaded_css, downloaded_js, downloaded_img,
                   sub, css, fetched, rewrites>>

\* ------------------------------------------------------------------------
\* main: <link> tags
\* ------------------------------------------------------------------------
IconRels == {"icon", "shortcut icon", "apple-touch-icon", "mask-icon"}

\* the state a step of a pass works on; flow tells how the loop body was left
Work == [soup |-> soup, store |-> store, disk |-> disk,
         downloaded_css |-> downloaded_css, downloaded_js |-> downloaded_js,
         downloaded_img |-> downloaded_img, fetched |-> fetched,
         rewrites |-> rewrites, flow |-> "next"]

EnvOf(w) == [store |-> w.store, disk |-> w.disk, downloaded_img |-> w.downloaded_img,
             fetched |-> w.fetched]

WithEnv(w, e) == [w EXCEPT !.store = e.store, !.disk = e.disk,
                           !.downloaded_img = e.downloaded_img, !.fetched = e.fetched]

\* tag[attr] = value in index.html, for the reference ref resolved to url
SetRef(w, i, ctx, url, value) ==
    [w EXCEPT !.soup[i].ref = value,
              !.rewrites = Append(@, Rewrite(InHtml(i), ctx, soup[i].ref, url, value))]

\* the stylesheet branch of the <link> loop on the response ot
StylesheetLink(w, i, ot) ==
    LET href == soup[i].ref
        css_url == join_and_clean(page_final_url, href)
    IN IF css_url = None THEN [w EXCEPT !.flow = "continue"]
       ELSE IF InMap(w.store, css_url)
       THEN [SetRef(w, i, "stylesheet", css_url,
                    relpath_web(DestDir, MapGet(w.store, css_url)))
               EXCEPT !.flow = "continue"]
       ELSE IF ~ot.ok
       THEN [w EXCEPT !.flow = "continue",
                      !.fetched = Append(@, Fetch("text", css_url, href, "stylesheet",
                                                  InHtml(i), ot, FALSE, <<>>))]
       ELSE LET local == local_path_for("css", ot.final, "text/css") IN
            IF ~ot.wr
            THEN [w EXCEPT !.flow = "crash",
                           !.fetched = Append(@, Fetch("text", css_url, href, "stylesheet",
                                                  InHtml(i), ot, FALSE, <<>>))]
            ELSE LET w1 == [w EXCEPT
                              !.disk = WriteFile(@, local, SiteText(css_url)),
                              !.store = MapSet(@, css_url, local),
                              !.downloaded_css = Append(@, <<ot.final, local>>),
                              !.fetched = Append(@, Fetch("text", css_url, href,
                                                  "stylesheet",
                                                  InHtml(i), ot, TRUE, local))]
                 IN SetRef(w1, i, "stylesheet", css_url, relpath_web(DestDir, local))

\* the icon branch of the <link> loop on the response ob
IconLink(w, i, ob) ==
    LET href == soup[i].ref
        icon_url == join_and_clean(page_final_url, href)
    IN IF icon_url = None THEN [w EXCEPT !.flow = "continue"]
       ELSE LET r == download_image(EnvOf(w), icon_url, DestDir, ob, href, "icon", InHtml(i))
                w1 == WithEnv(w, r.env)
            IN IF r.ret # None THEN SetRef(w1, i, "icon", icon_url, r.ret) ELSE w1

\* the state after a step: a crash (uncaught exception) ends the run
Commit(w) ==
    /\ soup' = w.soup
    /\ store' = w.store
    /\ disk' = w.disk
    /\ downloaded_css' = w.downloaded_css
    /\ downloaded_js' = w.downloaded_js
    /\ downloaded_img' = w.downloaded_img
    /\ fetched' = w.fetched
    /\ rewrites' = w.rewrites

\* one iteration of: for link_tag in soup.find_all("link")
LinkStep ==
    /\ pc = "links"
    /\ it <= Len(FindAll("link"))
    /\ LET i == FindAll("link")[it]
           href == soup[i].ref
           url == join_and_clean(page_final_url, href)
           isCss == "stylesheet" \in soup[i].rel
           isIcon == soup[i].rel \cap IconRels # {}
       IN IF href = <<>>
          THEN /\ Commit(Work)
               /\ pc' = pc
          ELSE \E ot \in (IF isCss /\ NeedsFetch(store, url)
                          THEN TextResponses(url) ELSE {NoResponse}) :
                 \E w1 \in {IF isCss THEN StylesheetLink(Work, i, ot) ELSE Work} :
                 \E ob \in (IF isIcon /\ w1.flow = "next" /\ NeedsFetch(w1.store, url)
                            THEN ImageResponses(url) ELSE {NoResponse}) :
                   \E w2 \in {IF isIcon /\ w1.flow = "next" THEN IconLink(w1, i, ob)
                               ELSE w1} :
                   /\ Commit(w2)
                   /\ pc' = IF w2.flow = "crash" THEN "crashed" ELSE pc
    /\ it' = it + 1
    /\ UNCHANGED <<root_ok, html, sub, css>>

\* ------------------------------------------------------------------------
\* main: <script src>
\* ------------------------------------------------------------------------
ScriptSrc(w, i, ob) ==
    LET src == soup[i].ref
        js_url == join_and_clean(page_final_url, src)
    IN IF js_url = None THEN w
       ELSE IF InMap(w.store, js_url)
       THEN SetRef(w, i, "script", js_url, relpath_web(DestDir, MapGet(w.store, js_url)))
       ELSE IF ~ob.ok
       THEN [w EXCEPT !.fetched = Append(@, Fetch("bytes", js_url, src, "script",
                                                  InHtml(i), ob, FALSE, <<>>))]
       ELSE LET ctype == IF ob.ctype = "" THEN "application/javascript" ELSE ob.ctype
                local == local_path_for("js", ob.final, ctype)
            IN IF ~ob.wr
               THEN [w EXCEPT !.flow = "crash",
                              !.fetched = Append(@, Fetch("bytes", js_url, src, "script",
                                                  InHtml(i), ob, FALSE, <<>>))]
               ELSE LET w1 == [w EXCEPT
                                 !.disk = WriteFile(@, local, Bytes),
                                 !.store = MapSet(@, js_url, local),
                                 !.downloaded_js = Append(@, <<ob.final, local>>),
                                 !.fetched = Append(@, Fetch("bytes", js_url, src,
                                                     "script",
                                                  InHtml(i), ob, TRUE, local))]
                    IN SetRef(w1, i, "script", js_url, relpath_web(DestDir, local))

\* one iteration of: for script_tag in soup.find_all("script")
ScriptStep ==
    /\ pc = "scripts"
    /\ it <= Len(FindAll("script"))
    /\ LET i == FindAll("script")[it]
           src == soup[i].ref
           url == join_and_clean(page_final_url, src)
       IN IF src = <<>>
          THEN /\ Commit(Work)
               /\ pc' = pc
          ELSE \E ob \in (IF NeedsFetch(store, url) THEN ScriptResponses(url)
                          ELSE {NoResponse}) :
                 \E w \in {ScriptSrc(Work, i, ob)} :
                 /\ Commit(w)
                 /\ pc' = IF w.flow = "crash" THEN "crashed" ELSE pc
    /\ it' = it + 1
    /\ UNCHANGED <<root_ok, html, sub, css>>

\* ------------------------------------------------------------------------
\* main: <img src>, srcset, <source srcset>, meta images
\* ------------------------------------------------------------------------
\* <img src> of one iteration of: for img_tag in soup.find_all("img");
\* a srcset, if any, is then worked off candidate by candidate
ImgSrc ==
    /\ pc = "imgs"
    /\ ~sub.active
    /\ it <= Len(FindAll("img"))
    /\ LET i == FindAll("img")[it]
           src == soup[i].ref
           absu == join_and_clean(page_final_url, src)
       IN /\ \E ob \in (IF NeedsFetch(store, absu) THEN ImageResponses(absu)
                        ELSE {NoResponse}) :
               IF src # <<>> /\ absu # None
               THEN \E r \in {download_image(Env, absu, DestDir, ob, src, "img",
                                               InHtml(i))} :
                      LET w == WithEnv(Work, r.env)
                      IN Commit(IF r.ret # None THEN SetRef(w, i, "img", absu, r.ret)
                                ELSE w)
               ELSE Commit(Work)
          /\ IF soup[i].srcset # <<>>
             THEN /\ sub' = [active |-> TRUE, urls |-> parse_srcset(soup[i].srcset),
                             j |-> 1, new_parts |-> <<>>]
                  /\ it' = it
             ELSE /\ sub' = sub
                  /\ it' = it + 1
    /\ UNCHANGED <<pc, root_ok, html, css>>

\* srcset of one iteration of: for source_tag in soup.find_all("source")
SourceStart ==
    /\ pc = "sources"
    /\ ~sub.active
    /\ it <= Len(FindAll("source"))
    /\ LET i == FindAll("source")[it] IN
       IF soup[i].srcset # <<>>
       THEN /\ sub' = [active |-> TRUE, urls |-> parse_srcset(soup[i].srcset),
                       j |-> 1, new_parts |-> <<>>]
            /\ it' = it
       ELSE /\ sub' = sub
            /\ it' = it + 1
    /\ UNCHANGED <<pc, root_ok, html, soup, store, downloaded_css, downloaded_js,
                   downloaded_img, disk, css, fetched, rewrites>>

\* the tag whose srcset is being worked off
SrcsetTag == FindAll(IF pc = "imgs" THEN "img" ELSE "source")[it]

\* one iteration of: for u in urls
SrcsetCandidate ==
    /\ pc \in {"imgs", "sources"}
    /\ sub.active
    /\ sub.j <= Len(sub.urls)
    /\ LET u == sub.urls[sub.j]
           absu == join_and_clean(page_final_url, u)
       IN IF absu = None
          THEN /\ sub' = [sub EXCEPT !.j = @ + 1]
               /\ UNCHANGED <<store, disk, downloaded_img, fetched>>
          ELSE \E ob \in (IF NeedsFetch(store, absu) THEN ImageResponses(absu)
                          ELSE {NoResponse}) :
                 \E r \in {download_image(Env, absu, DestDir, ob, u, "srcset",
                                            InHtml(SrcsetTag))} :
                 /\ store' = r.env.store
                 /\ disk' = r.env.disk
                 /\ downloaded_img' = r.env.downloaded_img
                 /\ fetched' = r.env.fetched
                 /\ sub' = [sub EXCEPT !.j = @ + 1,
                                       !.new_parts = IF r.ret # None
                                                     THEN Append(@, r.ret \o <<" ", "1", "x">>)
                                                     ELSE @]
    /\ UNCHANGED <<pc, root_ok, html, soup, downloaded_css, downloaded_js, it, css, rewrites>>

\* after the loop: if new_parts: tag["srcset"] = ", ".join(new_parts)
SrcsetDone ==
    /\ pc \in {"imgs", "sources"}
    /\ sub.active
    /\ sub.j > Len(sub.urls)
    /\ IF sub.new_parts # <<>>
       THEN LET value == Join(sub.new_parts, <<",", " ">>) IN
            /\ soup' = [soup EXCEPT ![SrcsetTag].srcset = value]
            /\ rewrites' = Append(rewrites,
                 Rewrite(InHtml(SrcsetTag), "srcset", soup[SrcsetTag].srcset, None, value))
       ELSE UNCHANGED <<soup, rewrites>>
    /\ sub' = NoSub
    /\ it' = it + 1
    /\ UNCHANGED <<pc, root_ok, html, store, downloaded_css, downloaded_js, downloaded_img,
                   disk, css, fetched>>

MetaImageProps == {"og:image", "og:image:url"}
MetaImageNames == {"twitter:image", "twitter:image:src"}

\* one iteration of: for meta in soup.find_all("meta")
MetaStep ==
    /\ pc = "metas"
    /\ it <= Len(FindAll("meta"))
    /\ LET i == FindAll("meta")[it]
           content == soup[i].ref
           absu == join_and_clean(page_final_url, content)
       IN IF soup[i].meta \in MetaImageProps \cup MetaImageNames /\ absu # None
          THEN \E ob \in (IF NeedsFetch(store, absu) THEN ImageResponses(absu)
                          ELSE {NoResponse}) :
                 \E r \in {download_image(Env, absu, DestDir, ob, content, "meta",
                                            InHtml(i))} :
                   LET w == WithEnv(Work, r.env)
                   IN Commit(IF r.ret # None THEN SetRef(w, i, "meta", absu, r.ret)
                             ELSE w)
          ELSE Commit(Work)
    /\ it' = it + 1
    /\ UNCHANGED <<pc, root_ok, html, sub, css>>

\* ------------------------------------------------------------------------
\* main: the CSS work list
\* ------------------------------------------------------------------------
\* the reverse lookup: the first key of the map stored under css_local
ReverseLookup(m, css_local) ==
    IF \E e \in 1..Len(m) : m[e].v = css_local
    THEN m[CHOOSE e \in 1..Len(m) :
             m[e].v = css_local /\ \A d \in 1..(e - 1) : m[d].v # css_local].k
    ELSE None

\* the start of one iteration of: for _remote, css_local in downloaded_css
CssOpen ==
    /\ pc = "css"
    /\ ~css.active
    /\ it <= Len(downloaded_css)
    /\ LET css_local == downloaded_css[it][2]
           css_text == ReadFile(disk, css_local)
           css_base_url == ReverseLookup(store, css_local)
       IN IF css_base_url = None
          THEN /\ css' = css
               /\ it' = it + 1
          ELSE /\ css' = [active |-> TRUE, css_local |-> css_local,
                          css_text |-> css_text, css_base_url |-> css_base_url,
                          refs |-> extract_urls_from_css(css_text), ri |-> 1,
                          updated |-> css_text]
               /\ it' = it
    /\ UNCHANGED <<pc, root_ok, html, soup, store, downloaded_css, downloaded_js,
                   downloaded_img, disk, sub, fetched, rewrites>>

\* ref.lower().endswith(".css") or "text/css" in ref.lower()
LooksLikeCss(ref) ==
    \/ Len(ref) >= 4 /\ SubSeq(ref, Len(ref) - 3, Len(ref)) = <<".", "c", "s", "s">>
    \/ Contains(ref, <<"t", "e", "x", "t", "/", "c", "s", "s">>)

\* one iteration of: for ref in refs
CssRef ==
    /\ pc = "css"
    /\ css.active
    /\ css.ri <= Len(css.refs)
    /\ LET ref == css.refs[css.ri]
           absu == join_and_clean(css.css_base_url, ref)
           dir == Dirname(css.css_local)
       IN IF absu = None
          THEN /\ css' = [css EXCEPT !.ri = @ + 1]
               /\ UNCHANGED <<store, disk, downloaded_css, downloaded_img, fetched,
                              rewrites>>
          ELSE IF LooksLikeCss(ref)
          THEN \E ot \in (IF NeedsFetch(store, absu) THEN TextResponses(absu)
                          ELSE {NoResponse}) :
                 LET imported_local == local_path_for("css", ot.final, "text/css")
                     got == ~InMap(store, absu) /\ ot.ok /\ ot.wr
                     map1 == IF got THEN MapSet(store, absu, imported_local) ELSE store
                 IN /\ store' = map1
                    /\ disk' = IF got THEN WriteFile(disk, imported_local, SiteText(absu))
                               ELSE disk
                    /\ downloaded_css' = IF got
                                         THEN Append(downloaded_css,
                                                     <<ot.final, imported_local>>)
                                         ELSE downloaded_css
                    /\ fetched' = IF InMap(store, absu) THEN fetched
                                  ELSE Append(fetched,
                                         Fetch("text", absu, ref, "css-import",
                                               InCss(css.css_local), ot, got,
                                               IF got THEN imported_local ELSE <<>>))
                    /\ IF InMap(map1, absu)
                       THEN LET local_rel == relpath_web(dir, MapGet(map1, absu)) IN
                            /\ css' = [css EXCEPT !.ri = @ + 1,
                                                  !.updated = Replace(@, ref, local_rel)]
                            /\ rewrites' = Append(rewrites,
                                 Rewrite(InCss(css.css_local), "css-import", ref, absu,
                                         local_rel))
                       ELSE /\ css' = [css EXCEPT !.ri = @ + 1]
                            /\ rewrites' = rewrites
                    /\ downloaded_img' = downloaded_img
          ELSE \E ob \in (IF NeedsFetch(store, absu) THEN ImageResponses(absu)
                          ELSE {NoResponse}) :
                 \E r \in {download_image(Env, absu, dir, ob, ref, "css-url",
                                            InCss(css.css_local))} :
                 /\ store' = r.env.store
                 /\ disk' = r.env.disk
                 /\ downloaded_img' = r.env.downloaded_img
                 /\ fetched' = r.env.fetched
                 /\ downloaded_css' = downloaded_css
                 /\ IF r.ret # None
                    THEN /\ css' = [css EXCEPT !.ri = @ + 1,
                                               !.updated = Replace(@, ref, r.ret)]
                         /\ rewrites' = Append(rewrites,
                              Rewrite(InCss(css.css_local), "css-url", ref, absu, r.ret))
                    ELSE /\ css' = [css EXCEPT !.ri = @ + 1]
                         /\ rewrites' = rewrites
    /\ UNCHANGED <<pc, root_ok, html, soup, downloaded_js, it, sub>>

\* the end of the iteration: if updated != css_text: write_text(css_local, updated)
CssClose ==
    /\ pc = "css"
    /\ css.active
    /\ css.ri > Len(css.refs)
    /\ disk' = IF css.updated # css.css_text
               THEN WriteFile(disk, css.css_local, css.updated) ELSE disk
    /\ css' = NoCss
    /\ it' = it + 1
    /\ UNCHANGED <<pc, root_ok, html, soup, store, downloaded_css, downloaded_js,
                   downloaded_img, sub, fetched, rewrites>>

\* ------------------------------------------------------------------------
\* main: the order of the passes and the final write
\* ------------------------------------------------------------------------
PassTag(p) ==
    CASE p = "links" -> "link"
      [] p = "scripts" -> "script"
      [] p = "imgs" -> "img"
      [] p = "sources" -> "source"
      [] p = "metas" -> "meta"

PassAfter(p) ==
    CASE p = "links" -> "scripts"
      [] p = "scripts" -> "imgs"
      [] p = "imgs" -> "sources"
      [] p = "sources" -> "metas"
      [] p = "metas" -> "css"
      [] p = "css" -> "save"

\* a loop of main is exhausted: go on with the next one
NextPass ==
    /\ pc \in {"links", "scripts", "imgs", "sources", "metas", "css"}
    /\ ~sub.active
    /\ ~css.active
    /\ it > (IF pc = "css" THEN Len(downloaded_css) ELSE Len(FindAll(PassTag(pc))))
    /\ pc' = PassAfter(pc)
    /\ it' = 1
    /\ UNCHANGED <<root_ok, html, soup, store, downloaded_css, downloaded_js, downloaded_img,
                   disk, sub, css, fetched, rewrites>>

IndexData == <<"<str(soup)>">>

\* a save that happens before the CSS work list is processed (variant of
\* SaveHtml for C11)
SaveHtmlEarly ==
    /\ pc = "css"
    /\ ~css.active
    /\ ~OnDisk(disk, IndexDoc)
    /\ disk' = WriteFile(disk, IndexDoc, IndexData)
    /\ UNCHANGED <<pc, root_ok, html, soup, store, downloaded_css, downloaded_js,
                   downloaded_img, it, sub, css, fetched, rewrites>>

\* write_text(index_path, str(soup))
SaveHtml ==
    /\ pc = "save"
    /\ disk' = WriteFile(disk, IndexDoc, IndexData)
    /\ pc' = "done"
    /\ UNCHANGED <<root_ok, html, soup, store, downloaded_css, downloaded_js, downloaded_img,
                   it, sub, css, fetched, rewrites>>

Next ==
    \/ FetchRoot
    \/ InlineStyles
    \/ LinkStep
    \/ ScriptStep
    \/ ImgSrc
    \/ SourceStart
    \/ SrcsetCandidate
    \/ SrcsetDone
    \/ MetaStep
    \/ CssOpen
    \/ CssRef
    \/ CssClose
    \/ NextPass
    \/ SaveHtml

Spec == Init /\ [][Next]_vars

\* ------------------------------------------------------------------------
\* Properties
\* ------------------------------------------------------------------------
\* the path a substituted value points to, from the directory of its document
Target(doc, value) == ResolveDots(Dirname(doc) \o Split(value, "/"), <<>>)

\* the reference is one the resolver skips for its scheme
Skipped(ref) == ref # <<>> /\ urlparse(Strip(ref)).scheme \in SKIP_SCHEMES

\* the reference has no stored asset (unresolvable, or never fetched with success)
Unstored(base, ref) ==
    join_and_clean(base, ref) = None \/ ~InMap(store, join_and_clean(base, ref))

\* the kind a Fetcher call stores its asset under
KindOf(f) ==
    IF f.ctx \in {"stylesheet", "css-import"} THEN "css"
    ELSE IF f.ctx = "script" THEN "js" ELSE "img"

StoredFetches == { n \in 1..Len(fetched) : fetched[n].stored }

\* C1 (as claimed): every resolved URL is fetched at most once in a run,
\* whatever the outcome, and all references to it are rewritten to one path
C1_FetchedAtMostOnce ==
    /\ \A m, n \in 1..Len(fetched) : fetched[m].url = fetched[n].url => m = n
    /\ \A a, b \in 1..Len(rewrites) :
         rewrites[a].url # None /\ rewrites[a].url = rewrites[b].url
           => Target(rewrites[a].doc, rewrites[a].value)
                = Target(rewrites[b].doc, rewrites[b].value)

\* C2: the map is write-once: a step keeps every entry as it is, keeps the keys
\* unique, and calls the Fetcher only for a URL that has no entry
C2_MapWriteOnce ==
    [][/\ Len(store') >= Len(store)
       /\ \A e \in 1..Len(store) : store'[e] = store[e]
       /\ \A e, d \in 1..Len(store') : store'[e].k = store'[d].k => e = d
       /\ \A n \in (Len(fetched) + 1)..Len(fetched') :
            ~InMap(store, fetched'[n].url)]_vars

\* C2 witness: a URL with an entry was referenced again and reused: two
\* substitutions for it, one call of the Fetcher
C2_Reused ==
    \E a, b \in 1..Len(rewrites) :
      /\ a < b
      /\ rewrites[a].url # None
      /\ rewrites[a].url = rewrites[b].url
      /\ InMap(store, rewrites[a].url)
      /\ Cardinality({ n \in 1..Len(fetched) : fetched[n].url = rewrites[a].url }) = 1

\* C3 (as claimed): at the end of a run every reference of index.html that is
\* unresolvable or was not fetched with success still stands as it was written,
\* and index.html is written
C3_FailedReferenceKept ==
    pc = "done" =>
      /\ OnDisk(disk, IndexDoc)
      /\ \A i \in 1..Len(html.tags) :
           /\ html.tags[i].ref # <<>> /\ Unstored(page_final_url, html.tags[i].ref)
                => soup[i].ref = html.tags[i].ref
           /\ \A k \in 1..Len(parse_srcset(html.tags[i].srcset)) :
                Unstored(page_final_url, parse_srcset(html.tags[i].srcset)[k])
                  => Contains(soup[i].srcset, parse_srcset(html.tags[i].srcset)[k])

\* C4: after a failed fetch of the root document the run is in its error state
\* and nothing was fetched, stored, rewritten or written
C4_RootFailureIsClean ==
    root_ok = "no" =>
      /\ pc = "error"
      /\ fetched = <<>>
      /\ store = <<>>
      /\ disk = <<>>
      /\ rewrites = <<>>
      /\ downloaded_css = <<>> /\ downloaded_js = <<>> /\ downloaded_img = <<>>

\* C4 witness: the fetch of the root document has failed
C4_RootFailed == root_ok = "no" /\ pc = "error"

\* C5 (as claimed): no Fetcher call stems from the injected link to
\* css/inline_styles.css, and its href stays css/inline_styles.css
C5_InjectedLinkIsLocal ==
    /\ \A n \in 1..Len(fetched) :
         fetched[n].doc = IndexDoc => ~soup[fetched[n].at].injected
    /\ \A i \in 1..Len(soup) : soup[i].injected => soup[i].ref = inline_css_rel

\* C6 (as claimed): a reference with a skip scheme is never fetched, never gets
\* a map entry, is never substituted, and still stands in the output HTML and CSS
C6_SkipSchemeUntouched ==
    /\ \A n \in 1..Len(fetched) : ~Skipped(fetched[n].ref)
    /\ \A a \in 1..Len(rewrites) :
         rewrites[a].ctx # "srcset" => ~Skipped(rewrites[a].ref)
    /\ \A e \in 1..Len(store) : is_http_url(store[e].k)
    /\ pc = "done" =>
         /\ \A i \in 1..Len(html.tags) :
              Skipped(html.tags[i].ref) => soup[i].ref = html.tags[i].ref
         /\ \A n \in StoredFetches :
              /\ fetched[n].how = "text"
              /\ \A m \in StoredFetches : fetched[m].local = fetched[n].local => m = n
              => \A k \in 1..Len(extract_urls_from_css(SiteText(fetched[n].url))) :
                   Skipped(extract_urls_from_css(SiteText(fetched[n].url))[k])
                     => Contains(ReadFile(disk, fetched[n].local),
                                 extract_urls_from_css(SiteText(fetched[n].url))[k])

\* C7 (as claimed): a response of the image pipeline whose content type is not
\* image/* stores nothing, and the attribute that holds the reference is as written
C7_NonImageLeftAlone ==
    \A n \in 1..Len(fetched) :
      /\ fetched[n].how = "bytes"
      /\ fetched[n].ctx # "script"
      /\ fetched[n].ok
      /\ ~IsImageType(fetched[n].ctype)
      => /\ ~fetched[n].stored
         /\ pc = "done" /\ fetched[n].doc = IndexDoc /\ ~InMap(store, fetched[n].url)
              => IF fetched[n].ctx = "srcset"
                 THEN soup[fetched[n].at].srcset = html.tags[fetched[n].at].srcset
                 ELSE soup[fetched[n].at].ref = html.tags[fetched[n].at].ref

\* C8 (as claimed): two entries of the map never hold the same local path
C8_DistinctUrlsDistinctPaths ==
    \A e, d \in 1..Len(store) : store[e].v = store[d].v => e = d

\* C8 (amended): of the assets stored, two with different final URLs or
\* different kinds never share a local path, equal base names or not; two with
\* the same final URL, kind and content type share it
C8_DistinctFinalsDistinctPaths ==
    \A m, n \in StoredFetches :
      /\ fetched[m].final # fetched[n].final \/ KindOf(fetched[m]) # KindOf(fetched[n])
           => fetched[m].local # fetched[n].local
      /\ (/\ fetched[m].final = fetched[n].final
          /\ KindOf(fetched[m]) = KindOf(fetched[n])
          /\ fetched[m].ctype = fetched[n].ctype)
           => fetched[m].local = fetched[n].local
      /\ InMap(store, fetched[n].url) /\ MapGet(store, fetched[n].url) = fetched[n].local

\* C8 witness: two assets of one kind with the same base name and different
\* final URLs are stored
C8_SameBaseNameStored ==
    \E m, n \in StoredFetches :
      /\ fetched[m].final # fetched[n].final
      /\ KindOf(fetched[m]) = KindOf(fetched[n])
      /\ Basename(fetched[m].final) = Basename(fetched[n].final)

\* C9: every value substituted into a document leads, from the directory of
\* that document, to the stored file of the asset
C9_RelativeToDocument ==
    \A a \in 1..Len(rewrites) :
      IF rewrites[a].ctx = "srcset"
      THEN \A k \in 1..Len(parse_srcset(rewrites[a].value)) :
             \E e \in 1..Len(store) :
               /\ Target(rewrites[a].doc, parse_srcset(rewrites[a].value)[k]) = store[e].v
               /\ OnDisk(disk, store[e].v)
      ELSE /\ InMap(store, rewrites[a].url)
           /\ Target(rewrites[a].doc, rewrites[a].value) = MapGet(store, rewrites[a].url)
           /\ OnDisk(disk, MapGet(store, rewrites[a].url))

\* C9 witness: a reference in a CSS file was substituted with the path of an
\* asset that was stored while another document was processed
C9_ReusedAcrossDocuments ==
    \E a \in 1..Len(rewrites) : \E n \in StoredFetches :
      /\ rewrites[a].doc # IndexDoc
      /\ fetched[n].url = rewrites[a].url
      /\ fetched[n].doc # rewrites[a].doc

\* the candidates of a srcset the resolver gives a URL for
ResolvedCandidates(srcset) ==
    SelectSeq(parse_srcset(srcset), LAMBDA u : join_and_clean(page_final_url, u) # None)

\* C10 (as claimed): a rewritten srcset has one entry per resolved candidate of
\* the original, each with the descriptor 1x
C10_OneEntryPerResolved ==
    pc = "done" =>
      \A i \in 1..Len(html.tags) :
        soup[i].srcset # html.tags[i].srcset
          => /\ Len(Split(soup[i].srcset, ","))
                  = Len(ResolvedCandidates(html.tags[i].srcset))
             /\ \A k \in 1..Len(Split(soup[i].srcset, ",")) :
                  LET part == Strip(Split(soup[i].srcset, ",")[k]) IN
                  Len(part) > 3 /\ SubSeq(part, Len(part) - 2, Len(part)) = <<" ", "1", "x">>

\* C11: index.html is written by one step only, the last one of a run that
\* succeeds: the step creates the file, nothing is fetched, stored, rewritten
\* or written once the file exists, and a run that is done has the file
C11_IndexWrittenLast ==
    [][/\ OnDisk(disk, IndexDoc)
            => UNCHANGED <<soup, store, disk, fetched, rewrites, downloaded_css,
                           downloaded_js, downloaded_img>>
       /\ (OnDisk(disk', IndexDoc) /\ ~OnDisk(disk, IndexDoc))
            => pc = "save" /\ pc' = "done"
       /\ pc' = "done" => OnDisk(disk', IndexDoc)]_vars

\* C11 witness: a run is done, index.html is written, and the run fetched
\* assets and rewrote references in index.html and in a stylesheet
C11_SavedAfterWork ==
    /\ pc = "done"
    /\ OnDisk(disk, IndexDoc)
    /\ \E n \in 1..Len(fetched) : fetched[n].stored
    /\ \E a, b \in 1..Len(rewrites) :
         rewrites[a].doc = IndexDoc /\ rewrites[b].doc # IndexDoc

\* the reference without its #fragment
StripFragment(ref) ==
    IF IndexFrom(ref, "#", 1) = 0 THEN ref ELSE SubSeq(ref, 1, IndexFrom(ref, "#", 1) - 1)

\* the references of the page: the attribute values and the srcset candidates
PageRefs ==
    UNION { {html.tags[i].ref} \cup
            { parse_srcset(html.tags[i].srcset)[k] :
                k \in 1..Len(parse_srcset(html.tags[i].srcset)) } :
            i \in 1..Len(html.tags) }

\* C12 (as claimed): a reference resolves as it does without its fragment, a
\* resolved URL resolves to itself, and the references of a document that
\* differ only in the fragment cause one fetch and are rewritten to one path
C12_FragmentsShareOneFetch ==
    /\ \A r \in PageRefs :
         join_and_clean(page_final_url, r)
           = join_and_clean(page_final_url, StripFragment(r))
    /\ \A n \in 1..Len(fetched) :
         /\ join_and_clean(page_final_url, fetched[n].url) = fetched[n].url
         /\ IndexFrom(fetched[n].url, "#", 1) = 0
    /\ \A m, n \in 1..Len(fetched) :
         /\ fetched[m].doc = fetched[n].doc
         /\ StripFragment(Strip(fetched[m].ref)) = StripFragment(Strip(fetched[n].ref))
         => m = n
    /\ \A a, b \in 1..Len(rewrites) :
         /\ rewrites[a].doc = rewrites[b].doc
         /\ rewrites[a].url # None /\ rewrites[b].url # None
         /\ StripFragment(Strip(rewrites[a].ref)) = StripFragment(Strip(rewrites[b].ref))
         => Target(rewrites[a].doc, rewrites[a].value)
              = Target(rewrites[b].doc, rewrites[b].value)

HexChars == {"0", "1", "2", "3", "4", "5", "6", "7", "8", "9", "a", "b", "c", "d", "e", "f"}

\* final URLs whose base name is empty, has characters that are not safe, leading
\* or trailing dots, or more than one dot
NameURLs ==
    { <<"https:", "//", "h", "/">> \o p :
        p \in { <<"d", "/">>, <<"%", "2", "0", ".", "p", "n", "g">>, <<"~">>, <<"a", "%", "2", "0", "b", "%", "2", "F", "c", ".", "t", "a", "r", ".", "g", "z">>,
                <<".", "h", "t", "a", "c", "c", "e", "s", "s">>, <<"a", ".", ".", "b">> } }

\* the inputs of local_path_for the naming is checked on
NameCases ==
    [url : NameURLs, kind : {"css", "js", "img", "other"},
     ctype : {"", "text/css", "image/png", "text/html"}]

\* the name is stem "_" digest ext at the position u of the underscore
NameSplitsAt(name, u, digest) ==
    /\ u > 1
    /\ u + 10 <= Len(name)
    /\ name[u] = "_"
    /\ SubSeq(name, u + 1, u + 10) = digest
    /\ u + 10 < Len(name) => name[u + 11] = "."

\* path is a file of the bucket of kind whose name is safe and has the form
\* stem "_" digest ext, the digest being that of url
WellNamed(path, kind, url) ==
    /\ Len(path) = 2
    /\ path[1] = (CASE kind = "css" -> <<"c", "s", "s">> [] kind = "js" -> <<"j", "s">>
                    [] kind = "img" -> <<"i", "m", "g">> [] OTHER -> <<"a", "s", "s", "e", "t", "s">>)
    /\ \A k \in 1..Len(path[2]) : path[2][k] \in SafeChars
    /\ Len(short_hash(Str(url))) = 10
    /\ \A k \in 1..10 : short_hash(Str(url))[k] \in HexChars
    /\ \E u \in 1..Len(path[2]) : NameSplitsAt(path[2], u, short_hash(Str(url)))

\* C13: the path local_path_for gives for a final URL, a kind and a content
\* type lies in the bucket of the kind and its name is made of safe characters
\* only, with a stem that is not empty, "_" and the 10 hex characters of the digest
C13_SafeFilenames ==
    /\ pc = "start" => \A c \in NameCases :
         WellNamed(local_path_for(c.kind, c.url, c.ctype), c.kind, c.url)
    /\ \A n \in StoredFetches :
         WellNamed(fetched[n].local, KindOf(fetched[n]), fetched[n].final)

\* C13 witness: assets are stored in two buckets, one under a name whose
\* extension comes from the content type, one under a name that keeps the
\* extension of the URL
C13_NamesStored ==
    \E m, n \in StoredFetches :
      /\ fetched[m].local[1] # fetched[n].local[1]
      /\ splitext(Basename(fetched[m].final))[2] = <<>>
      /\ splitext(Basename(fetched[n].final))[2] # <<>>

\* the Fetcher call that put the k-th entry on the CSS work list
ListedBy(k) == SelectSeq(fetched, LAMBDA f : f.how = "text" /\ f.stored)[k]

\* C14 (as claimed): the references of a work-list entry are resolved against
\* the URL that entry was fetched from (as requested, or as redirected to),
\* not against the page URL or the URL of another entry
C14_ResolvedAgainstOwnURL ==
    css.active =>
      /\ css.css_local = downloaded_css[it][2]
      /\ css.css_base_url \in {ListedBy(it).url, ListedBy(it).final}
      /\ css.css_base_url # page_final_url

\* C15 (as claimed, the part that can fail): the CSS pass is left only when the
\* whole work list is scanned, no local CSS file is on the work list twice (so
\* each is scanned once), and a stylesheet is fetched and appended only for a
\* URL that has no map entry
C15_WorkListScannedOnce ==
    [][/\ (pc = "css" /\ pc' # "css") => (it > Len(downloaded_css) /\ ~css.active)
       /\ \A j, k \in 1..Len(downloaded_css') :
            downloaded_css'[j][2] = downloaded_css'[k][2] => j = k
       /\ \A n \in (Len(fetched) + 1)..Len(fetched') :
            fetched'[n].how = "text" => ~InMap(store, fetched'[n].url)]_vars

\* the spans of s matched as references: where the reference text stands, and
\* the text, for the matches of the url() and the @import pattern
CssSpans(s) ==
    { [at |-> Find(s, Strip(UrlMatchAt(s, k)[1]), k + 1), ref |-> Strip(UrlMatchAt(s, k)[1])] :
        k \in { j \in 1..Len(s) :
                  UrlMatchAt(s, j) # <<>> /\ Strip(UrlMatchAt(s, j)[1]) # <<>> } }
    \cup
    { [at |-> Find(s, Strip(ImportMatchAt(s, k)[1]), k + 1),
       ref |-> Strip(ImportMatchAt(s, k)[1])] :
        k \in { j \in 1..Len(s) :
                  ImportMatchAt(s, j) # <<>> /\ Strip(ImportMatchAt(s, j)[1]) # <<>> } }

\* the value substituted for the reference ref in the document doc, if any
Substituted(doc, ref) ==
    { rewrites[a].value : a \in { b \in 1..Len(rewrites) :
                                    rewrites[b].doc = doc /\ rewrites[b].ref = ref } }

\* s from position i on, with every span of spans that has a substituted value
\* replaced by it and every other character kept
RECURSIVE SpanRewrite(_, _, _, _)
SpanRewrite(s, spans, doc, i) ==
    IF i > Len(s) THEN <<>>
    ELSE IF \E sp \in spans : sp.at = i /\ Substituted(doc, sp.ref) # {}
    THEN LET sp == CHOOSE x \in spans : x.at = i /\ Substituted(doc, x.ref) # {}
         IN (CHOOSE v \in Substituted(doc, sp.ref) : TRUE)
            \o SpanRewrite(s, spans, doc, i + Len(sp.ref))
    ELSE <<s[i]>> \o SpanRewrite(s, spans, doc, i + 1)

\* C16 (as claimed): at the end of a run a stylesheet stored once holds the text
\* it was served with, changed only in the spans matched as references whose
\* reference was substituted; without a substitution it holds the served text
C16_OnlyMatchedSpansChange ==
    pc = "done" =>
      \A n \in StoredFetches :
        /\ fetched[n].how = "text"
        /\ \A m \in StoredFetches : fetched[m].local = fetched[n].local => m = n
        => ReadFile(disk, fetched[n].local)
             = SpanRewrite(SiteText(fetched[n].url), CssSpans(SiteText(fetched[n].url)),
                           fetched[n].local, 1)

\* the Fetcher call got a response that was to be stored, and the write failed
WriteFailed(f) ==
    /\ f.ok
    /\ ~f.stored
    /\ f.ctx \in {"stylesheet", "css-import", "script"} \/ IsImageType(f.ctype)

\* the paths a substituted value names, from the directory of its document
Targets(r) ==
    IF r.ctx = "srcset"
    THEN { Target(r.doc, parse_srcset(r.value)[k]) : k \in 1..Len(parse_srcset(r.value)) }
    ELSE {Target(r.doc, r.value)}

\* C17: after every step each path of the map names a file on disk, each value
\* substituted by the step names a file on disk, and a Fetcher call of the step
\* that stored nothing leaves no map entry for its URL
C17_StoredBeforeMapped ==
    [][/\ \A e \in 1..Len(store') : OnDisk(disk', store'[e].v)
       /\ \A a \in (Len(rewrites) + 1)..Len(rewrites') :
            \A t \in Targets(rewrites'[a]) : OnDisk(disk', t)
       /\ \A n \in (Len(fetched) + 1)..Len(fetched') :
            ~fetched'[n].stored /\ InMap(store', fetched'[n].url)
              => \E m \in (Len(fetched) + 1)..Len(fetched') :
                   fetched'[m].stored /\ fetched'[m].url = fetched'[n].url]_vars

\* C17 witness: a run is done in which the write of a fetched image failed, its
\* URL has no map entry, and another asset was stored and substituted
C17_WriteFailed ==
    /\ pc = "done"
    /\ rewrites # <<>>
    /\ \E n \in 1..Len(fetched) :
         /\ WriteFailed(fetched[n])
         /\ ~InMap(store, fetched[n].url)

\* the bucket the context of a substitution belongs to
BucketOf(ctx) ==
    IF ctx \in {"stylesheet", "css-import"} THEN <<"c", "s", "s">>
    ELSE IF ctx = "script" THEN <<"j", "s">>
    ELSE <<"i", "m", "g">>

\* C18 (as claimed): a substituted value names a file in the bucket of the
\* context of its reference, and in an image context a file that was fetched
\* with an image content type
C18_RewritesStayInBucket ==
    \A a \in 1..Len(rewrites) :
      \A t \in Targets(rewrites[a]) :
        /\ t[1] = BucketOf(rewrites[a].ctx)
        /\ BucketOf(rewrites[a].ctx) = <<"i", "m", "g">>
             => \E n \in StoredFetches :
                  fetched[n].local = t /\ IsImageType(fetched[n].ctype)

====
